---- MODULE Spec2Model ----
(***************************************************************************)
(* A model of skelly_tracker's batch orchestrator                          *)
(* (process_folder_of_videos.py), of its recorders (base_recorder.py,      *)
(* brightest_point_recorder.py, openpose_recorder.py), of the holistic     *)
(* observation (mediapipe_observation.py), of the calibration-board        *)
(* detector (charuco_detector.py) and of the trackers' process_image       *)
(* (base_tracker.py, color_tracker.py).                                    *)
(*                                                                         *)
(* One behaviour exercises one part of the program, named by scenario:     *)
(* "batch": process_folder_of_videos is called once in the calling context *)
(* and once across a worker pool, over the same folder; "recorder": record,*)
(* process_tracked_objects, clear_recorded_objects, save on one recorder,  *)
(* in any order; "observation": one MediapipeObservation is created, read and     *)
(* serialized; "charuco": a board detector is created and handed frames;   *)
(* "ingest": a directory of result files is parsed; "tracker":             *)
(* process_image is called on frames.                                      *)
(***************************************************************************)
EXTENDS Integers, Sequences, FiniteSets, TLC

\* ------------------------------------------------------------- bounds
MaxVideos == 2      \* video files in the folder
MaxFrames == 2      \* frames per video file
MaxCores == 3       \* cpu_count() of the machine
MaxProcesses == 2   \* largest num_processes a caller passes
MaxRecords == 3     \* record calls on the recorder under test
MaxCalls == 2       \* process_image calls on the tracker under test
MaxFiles == 2       \* per-frame result files in a directory
MaxSquares == 5     \* squares along a side of a calibration board
MaxSide == 3        \* pixels along a side of a frame

\* ------------------------------------------------------------- values
\* Python's None where a number is expected, and the float not-a-number;
\* both lie outside the range of every coordinate of the model.
None == -1000001
NaN == -1000000

\* Python's None where an array is expected.
NoArray == [none |-> TRUE]

Min(a, b) == IF a <= b THEN a ELSE b

\* What numpy stores in a float array cell when assigned v.
ToFloat(v) == IF v = None THEN NaN ELSE v

\* ------------------------------------------------------------- observations
\* Landmark counts of the holistic model.
num_body_points == 33
num_single_hand_points == 21
num_face_points == 478

\* MediapipeObservation.num_total_points, MediapipeModelInfo.num_tracked_points_total
num_total_points == num_body_points + (2 * num_single_hand_points) + num_face_points

\* A region of a detection result: None (absent), or a landmark list of n
\* landmarks, here all at the normalized position point.
NoLandmarks == [present |-> FALSE, landmark |-> << >>]
Landmarks(n, point) == [present |-> TRUE, landmark |-> [j \in 1..n |-> point]]

\* MediapipeObservation.landmarks_to_array: normalized image coordinates to
\* pixel coordinates, z scaled by the image width.
landmarks_to_array(landmarks, image_size) ==
    [j \in 1..Len(landmarks.landmark) |->
        << landmarks.landmark[j][1] * image_size[1],
           landmarks.landmark[j][2] * image_size[2],
           landmarks.landmark[j][3] * image_size[1] >>]

\* np.full((n, 3), np.nan)
NaNBlock(n) == [j \in 1..n |-> << NaN, NaN, NaN >>]

pose_trajectories(observation) ==
    IF ~observation.pose_landmarks.present
    THEN NaNBlock(num_body_points)
    ELSE landmarks_to_array(observation.pose_landmarks, observation.image_size)

\* Mutant of right_hand_trajectories: an absent right hand gives zeros.
right_hand_trajectories_zero_filled(observation) ==
    IF ~observation.right_hand_landmarks.present
    THEN [j \in 1..num_single_hand_points |-> << 0, 0, 0 >>]
    ELSE landmarks_to_array(observation.right_hand_landmarks, observation.image_size)

right_hand_trajectories(observation) ==
    IF ~observation.right_hand_landmarks.present
    THEN NaNBlock(num_single_hand_points)
    ELSE landmarks_to_array(observation.right_hand_landmarks, observation.image_size)

left_hand_trajectories(observation) ==
    IF ~observation.left_hand_landmarks.present
    THEN NaNBlock(num_single_hand_points)
    ELSE landmarks_to_array(observation.left_hand_landmarks, observation.image_size)

face_trajectories(observation) ==
    IF ~observation.face_landmarks.present
    THEN NaNBlock(num_face_points)
    ELSE landmarks_to_array(observation.face_landmarks, observation.image_size)

\* MediapipeObservation.all_holistic_trajectories
\* Mutant of all_holistic_trajectories: the left hand's block comes before
\* the right hand's.
all_holistic_trajectories_left_first(observation) ==
    pose_trajectories(observation) \o left_hand_trajectories(observation)
        \o right_hand_trajectories(observation) \o face_trajectories(observation)

all_holistic_trajectories(observation) ==
    pose_trajectories(observation) \o right_hand_trajectories(observation)
        \o left_hand_trajectories(observation) \o face_trajectories(observation)

\* MediapipeModelInfo.num_tracked_points_total
num_tracked_points_total ==
    num_body_points + 2 * num_single_hand_points + num_face_points

\* MediapipeObservation.from_detection_results
from_detection_results(mediapipe_results, image_size) ==
    [pose_landmarks |-> mediapipe_results.pose_landmarks,
     right_hand_landmarks |-> mediapipe_results.right_hand_landmarks,
     left_hand_landmarks |-> mediapipe_results.left_hand_landmarks,
     face_landmarks |-> mediapipe_results.face_landmarks,
     image_size |-> image_size]

\* Whether a list of (x, y, z) rows holds a value that is not finite.
HasNonFinite(rows) ==
    \E j \in 1..Len(rows) : \E c \in 1..3 : rows[j][c] = NaN

\* json.dumps(d) of a dictionary of row lists, with its default
\* allow_nan=True: a nan is written as the token NaN, which is not JSON, and
\* nothing is raised; with allow_nan=False it would raise ValueError.
allow_nan == TRUE

json_dumps(d) ==
    LET non_finite == \/ HasNonFinite(d.pose_trajectories)
                      \/ HasNonFinite(d.right_hand_trajectories)
                      \/ HasNonFinite(d.left_hand_trajectories)
                      \/ HasNonFinite(d.face_trajectories)
    IN  [raised |-> (~allow_nan /\ non_finite), not_json |-> non_finite]

\* MediapipeObservation.to_serializable_dict: the dictionary is returned
\* unless json.dumps of it raised.
to_serializable_dict(obs) ==
    LET d == [pose_trajectories |-> pose_trajectories(obs),
              right_hand_trajectories |-> right_hand_trajectories(obs),
              left_hand_trajectories |-> left_hand_trajectories(obs),
              face_trajectories |-> face_trajectories(obs),
              image_size |-> obs.image_size]
    IN  IF json_dumps(d).raised
        THEN [raised |-> TRUE, error |-> "ValueError", value |-> [none |-> TRUE]]
        ELSE [raised |-> FALSE, error |-> "none", value |-> d]

\* ------------------------------------------------------------- tracker
\* The contours the colour mask of a frame may have: (center, radius of the
\* minimum enclosing circle).
Contours ==
    {[center |-> << 1, 1 >>, radius |-> 1], [center |-> << 2, 2 >>, radius |-> 3]}

\* A frame's buffer: what the camera saw and what was drawn onto it.
Picture(contours) == [contours |-> contours, drawn |-> {}]

\* detector.detect(image): the observation is a function of what the camera
\* saw.
detect(buffer) == [centers |-> {contour.center : contour \in buffer.contours}]

\* annotator.annotate_image(image, latest_observation): the observation's
\* geometry drawn onto a copy of the frame.
annotate_image(buffer, latest_observation) ==
    [buffer EXCEPT !.drawn = @ \cup latest_observation.centers]

\* BaseTracker.process_image: the buffer the caller passed as it is after the
\* call, the observation returned, the annotated image returned if any, and
\* whether that image is the caller's buffer itself.
process_image(buffer, annotate) ==
    LET latest_observation == detect(buffer)
    IN  [input |-> buffer,
         observation |-> latest_observation,
         annotated_image |-> IF annotate
                             THEN annotate_image(buffer, latest_observation)
                             ELSE [none |-> TRUE],
         annotated_is_input |-> FALSE]

\* ColorTracker.process_image: cv2.circle draws into the image passed, for
\* every contour of radius > 1; tracking_data holds their centers and
\* annotated_image is that same image.
ColorTrackerProcessImage(buffer) ==
    LET found == {contour \in buffer.contours : contour.radius > 1}
        after == [buffer EXCEPT !.drawn = @ \cup found]
    IN  [input |-> after,
         observation |-> [centers |-> {contour.center : contour \in found}],
         annotated_image |-> after,
         annotated_is_input |-> TRUE]

\* BaseRecorder.add_observations
add_observations(observations, new_observation) == Append(observations, new_observation)

\* ------------------------------------------------------------- result files
\* OpenPoseModelInfo: the point counts of the body, of one hand, of the face.
body_markers == 25
hand_markers == 21
face_markers == 70

\* The keys of a person in a result file.
PersonKeys ==
    {"pose_keypoints_2d", "hand_left_keypoints_2d", "hand_right_keypoints_2d",
     "face_keypoints_2d"}

\* np.reshape(person_data[key], (-1, 3)): here row j of a key of person id
\* is (id, a number for the key, j), every key holding all its points.
KeyNumber(key) ==
    CASE key = "pose_keypoints_2d" -> 1
      [] key = "hand_left_keypoints_2d" -> 2
      [] key = "hand_right_keypoints_2d" -> 3
      [] key = "face_keypoints_2d" -> 4

KeyRow(person_data, key, j) == << person_data.id, KeyNumber(key), j >>

\* A result file: the frame index in its name and its "people" list.
JsonFile(frame_index, people) == [frame_index |-> frame_index, people |-> people]

\* frame_indices.sort(): the indices in increasing order.
RECURSIVE SortedIndices(_)
SortedIndices(indices) ==
    IF indices = {} THEN << >>
    ELSE LET least == CHOOSE i \in indices : \A other \in indices : i <= other
         IN  << least >> \o SortedIndices(indices \ {least})

\* OpenPoseRecorder.extract_keypoints: an array of all the body, hand and
\* face points, filled from the keys the person has; the hands are filled
\* only when both hand keys are there.
extract_keypoints(person_data) ==
    LET has(key) == key \in person_data.keys
        hands == has("hand_left_keypoints_2d") /\ has("hand_right_keypoints_2d")
        row(j) ==
            IF j <= body_markers
            THEN IF has("pose_keypoints_2d")
                 THEN KeyRow(person_data, "pose_keypoints_2d", j)
                 ELSE << NaN, NaN, NaN >>
            ELSE IF j <= body_markers + hand_markers
            THEN IF hands
                 THEN KeyRow(person_data, "hand_left_keypoints_2d", j - body_markers)
                 ELSE << NaN, NaN, NaN >>
            ELSE IF j <= body_markers + 2 * hand_markers
            THEN IF hands
                 THEN KeyRow(person_data, "hand_right_keypoints_2d",
                             j - body_markers - hand_markers)
                 ELSE << NaN, NaN, NaN >>
            ELSE IF has("face_keypoints_2d")
                 THEN KeyRow(person_data, "face_keypoints_2d",
                             j - body_markers - 2 * hand_markers)
                 ELSE << NaN, NaN, NaN >>
    IN  [j \in 1..(body_markers + (2 * hand_markers) + face_markers) |-> row(j)]

\* num_markers of parse_openpose_jsons
NumMarkers(track_hands, track_faces) ==
    body_markers + (IF track_hands THEN hand_markers * 2 ELSE 0)
                 + (IF track_faces THEN face_markers ELSE 0)

\* The loop of parse_openpose_jsons from position file_index (from 1 here) of
\* the listing on: the keypoints of the file's first person are assigned to
\* data_array[frame_indices[file_index], :, :]. An index beyond the array
\* raises IndexError, keypoints of another row count than the array's raise
\* ValueError.
RECURSIVE ParseLoop(_, _, _, _, _)
ParseLoop(files, frame_indices, num_markers, data, file_index) ==
    IF file_index > Len(files)
    THEN [raised |-> FALSE, error |-> "none",
          value |-> [shape |-> << Len(files), num_markers, 3 >>, data |-> data]]
    ELSE IF files[file_index].people = << >>
    THEN ParseLoop(files, frame_indices, num_markers, data, file_index + 1)
    ELSE LET keypoints == extract_keypoints(files[file_index].people[1])
             target == frame_indices[file_index]
         IN  IF target >= Len(files)
             THEN [raised |-> TRUE, error |-> "IndexError", value |-> NoArray]
             ELSE IF Len(keypoints) # num_markers
             THEN [raised |-> TRUE, error |-> "ValueError", value |-> NoArray]
             ELSE ParseLoop(files, frame_indices, num_markers,
                            [data EXCEPT ![target + 1] = keypoints], file_index + 1)

\* OpenPoseRecorder.parse_openpose_jsons over the listing glob returned.
parse_openpose_jsons(files, track_hands, track_faces) ==
    LET frame_indices == SortedIndices({files[i].frame_index : i \in 1..Len(files)})
        num_markers == NumMarkers(track_hands, track_faces)
        data_array == [k \in 1..Len(files) |->
                          [j \in 1..num_markers |-> << NaN, NaN, NaN >>]]
    IN  ParseLoop(files, frame_indices, num_markers, data_array, 1)

\* ------------------------------------------------------------- calibration board
\* A frame as numpy holds it: shape (height, width) when grey,
\* (height, width, 3) when in colour.
Frame(height, width, colour) ==
    [shape |-> IF colour THEN << height, width, 3 >> ELSE << height, width >>]

HeightOf(image) == image.shape[1]
WidthOf(image) == image.shape[2]

\* CharucoDetectorConfig.charuco_corner_ids: list(range(...))
charuco_corner_ids(config) ==
    [i \in 1..((config.squares_x - 1) * (config.squares_y - 1)) |-> i - 1]

\* Mutant of charuco_corners_in_object_coordinates: one coordinate per square.
charuco_corners_per_square(config) ==
    << [shape |-> << config.squares_x * config.squares_y, 3 >>,
        data |-> [k \in 1..(config.squares_x * config.squares_y) |->
                     << (k - 1) \div config.squares_y, (k - 1) % config.squares_y, 0 >>]] >>

\* CharucoDetectorConfig.charuco_corners_in_object_coordinates: a list of one
\* array, its rows [x, y, 0] for x in range(squares_x - 1), for y in
\* range(squares_y - 1).
charuco_corners_in_object_coordinates(config) ==
    << [shape |-> << (config.squares_x - 1) * (config.squares_y - 1), 3 >>,
        data |-> [k \in 1..((config.squares_x - 1) * (config.squares_y - 1)) |->
                     << (k - 1) \div (config.squares_y - 1),
                        (k - 1) % (config.squares_y - 1), 0 >>]] >>

\* CharucoDetector.create: the observation factory is given the config's
\* corner ids and object coordinates.
CharucoDetectorCreate(config) ==
    [config |-> config,
     observation_factory |->
         [charuco_corner_ids |-> charuco_corner_ids(config),
          charuco_corner_object_coordinates |->
              charuco_corners_in_object_coordinates(config)]]

\* What detectBoard may find on a frame: no corner, or every corner.
DetectBoardResults(config) == {<< >>, charuco_corner_ids(config)}

\* CharucoDetector.detect: the observation is created from detectBoard's
\* result and image_size=image.shape[:2].
CharucoDetect(detector, image, detected) ==
    [detected_charuco_corner_ids |-> detected,
     image_size |-> SubSeq(image.shape, 1, 2)]

\* ------------------------------------------------------------- recorder
\* BaseRecorder.__init__, in an object of the given recorder class.
BaseRecorderInit(class) ==
    [class |-> class, recorded_objects |-> << >>, recorded_objects_array |-> NoArray]

\* BrightestPointRecorder.record
BrightestPointRecord(rec, tracked_objects) ==
    [rec EXCEPT !.recorded_objects = Append(@, tracked_objects["brightest_point"])]

\* The holistic recorder's record: the frame's detection result is appended.
HolisticRecord(rec, tracked_objects) ==
    [rec EXCEPT !.recorded_objects = Append(@, tracked_objects)]

\* recorder.record(tracked_objects), by the recorder's class.
record(rec, tracked_objects) ==
    IF rec.class = "BrightestPointRecorder"
    THEN BrightestPointRecord(rec, tracked_objects)
    ELSE HolisticRecord(rec, tracked_objects)

\* Mutant of BrightestPointArray: pixel_y is written to column 0 and pixel_x
\* to column 1.
BrightestPointArray_columns_swapped(recorded_objects) ==
    [shape |-> << Len(recorded_objects), 1, 3 >>,
     data |-> [i \in 1..Len(recorded_objects) |->
                  << << ToFloat(recorded_objects[i].pixel_y),
                        ToFloat(recorded_objects[i].pixel_x),
                        ToFloat(recorded_objects[i].depth_z) >> >>]]

\* The (len, 1, 3) array BrightestPointRecorder.process_tracked_objects fills.
BrightestPointArray(recorded_objects) ==
    [shape |-> << Len(recorded_objects), 1, 3 >>,
     data |-> [i \in 1..Len(recorded_objects) |->
                  << << ToFloat(recorded_objects[i].pixel_x),
                        ToFloat(recorded_objects[i].pixel_y),
                        ToFloat(recorded_objects[i].depth_z) >> >>]]

\* The holistic recorder's array: each frame's trajectories stacked along the
\* frame axis.
HolisticArray(recorded_objects) ==
    [shape |-> << Len(recorded_objects), num_total_points, 3 >>,
     data |-> [i \in 1..Len(recorded_objects) |->
                  all_holistic_trajectories(recorded_objects[i])]]

\* Mutant of process_tracked_objects: the recorded objects are consumed by
\* the compaction.
process_tracked_objects_draining(rec) ==
    LET array == IF rec.class = "BrightestPointRecorder"
                 THEN BrightestPointArray(rec.recorded_objects)
                 ELSE HolisticArray(rec.recorded_objects)
        after == [rec EXCEPT !.recorded_objects_array = array, !.recorded_objects = << >>]
    IN  [rec |-> after, returned |-> after.recorded_objects_array]

\* recorder.process_tracked_objects(): the array is built from the recorded
\* objects, kept in recorded_objects_array and returned.
process_tracked_objects(rec) ==
    LET array == IF rec.class = "BrightestPointRecorder"
                 THEN BrightestPointArray(rec.recorded_objects)
                 ELSE HolisticArray(rec.recorded_objects)
        after == [rec EXCEPT !.recorded_objects_array = array]
    IN  [rec |-> after, returned |-> after.recorded_objects_array]

\* Mutant of clear_recorded_objects: the cached array is kept.
clear_recorded_objects_keeps_array(rec) ==
    [rec EXCEPT !.recorded_objects = << >>]

\* BaseRecorder.clear_recorded_objects
clear_recorded_objects(rec) ==
    [rec EXCEPT !.recorded_objects = << >>, !.recorded_objects_array = NoArray]

\* BaseRecorder.save: the recorded objects are compacted only if no array is
\* held; np.save writes the array held.
save(rec) ==
    LET after == IF rec.recorded_objects_array = NoArray
                 THEN process_tracked_objects(rec).rec
                 ELSE rec
    IN  [rec |-> after, written |-> after.recorded_objects_array]

\* ------------------------------------------------------------- trackers
KnownTrackerNames ==
    {"MediapipeHolisticTracker", "YOLOMediapipeComboTracker",
     "YOLOPoseTracker", "BrightestPointTracker"}

\* Names a caller may pass; "ColorTracker" is a tracker class of the
\* repository that the factory does not know.
TrackerNames == KnownTrackerNames \cup {"ColorTracker"}

\* Names whose detector and recorder the batch runs of this model execute.
BatchTrackerNames == {"BrightestPointTracker", "ColorTracker"}

file_name_dictionary ==
    [name \in KnownTrackerNames |->
        CASE name = "MediapipeHolisticTracker" ->
                 "mediapipe2dData_numCams_numFrames_numTrackedPoints_pixelXY.npy"
          [] name = "YOLOMediapipeComboTracker" ->
                 "mediapipe2dData_numCams_numFrames_numTrackedPoints_pixelXY.npy"
          [] name = "YOLOPoseTracker" ->
                 "yolo2dData_numCams_numFrames_numTrackedPoints_pixelXY.npy"
          [] name = "BrightestPointTracker" ->
                 "brightestPoint2dData_numCams_numFrames_numTrackedPoints_pixelXY.npy"]

\* Mutant of FileNameLookup: a lookup with a default (dict.get) never raises.
FileNameLookup_with_default(name) ==
    IF name \in DOMAIN file_name_dictionary
    THEN [raised |-> FALSE, value |-> file_name_dictionary[name]]
    ELSE [raised |-> FALSE, value |-> "data.npy"]

\* file_name_dictionary[tracker_name]: a KeyError for a missing key.
FileNameLookup(name) ==
    IF name \in DOMAIN file_name_dictionary
    THEN [raised |-> FALSE, value |-> file_name_dictionary[name]]
    ELSE [raised |-> TRUE, value |-> "KeyError"]

\* get_tracker: a fresh tracker (with a fresh recorder) of the named class,
\* or ValueError("Invalid tracker type").
get_tracker(name) ==
    CASE name = "MediapipeHolisticTracker" ->
             [raised |-> FALSE, class |-> "MediapipeHolisticTracker",
              recorder |-> BaseRecorderInit("MediapipeHolisticRecorder")]
      [] name = "YOLOMediapipeComboTracker" ->
             [raised |-> FALSE, class |-> "YOLOMediapipeComboTracker",
              recorder |-> BaseRecorderInit("MediapipeHolisticRecorder")]
      [] name = "YOLOPoseTracker" ->
             [raised |-> FALSE, class |-> "YOLOPoseTracker",
              recorder |-> BaseRecorderInit("YOLORecorder")]
      [] name = "BrightestPointTracker" ->
             [raised |-> FALSE, class |-> "BrightestPointTracker",
              recorder |-> BaseRecorderInit("BrightestPointRecorder")]
      [] OTHER ->
             [raised |-> TRUE, class |-> "ValueError", recorder |-> BaseRecorderInit("None")]

\* ------------------------------------------------------------- videos
\* The image of frame j of the i-th discovered video file.
Image(i, j) == [video |-> i, index |-> j]

\* A video file: the frames it reports (CAP_PROP_FRAME_COUNT) and how many of
\* them can be read; reading frame number readable + 1 fails.
Video(i, frame_count, readable) ==
    [images |-> [j \in 1..frame_count |-> Image(i, j)], readable |-> readable]

\* The files a folder may hold: of any frame count, wholly readable or
\* failing at the last frame.
VideoChoices(i) ==
    {Video(i, cr[1], cr[2]) :
        cr \in {x \in (0..MaxFrames) \X (0..MaxFrames) :
                    x[2] <= x[1] /\ x[1] <= x[2] + 1}}

\* The brightest-point detector on one image: the tracked objects it reports.
\* The pixel position identifies the image; a 2-D backend leaves depth_z unset.
BrightestPointDetect(image) ==
    [brightest_point |-> [pixel_x |-> image.video, pixel_y |-> image.index, depth_z |-> None]]

\* ------------------------------------------------------------- numpy
\* Mutant of np_stack: arrays of different frame counts are cut to the
\* shortest instead of refused.
np_stack_truncating(arrays) ==
    IF Len(arrays) = 0
    THEN [raised |-> TRUE, value |-> NoArray]
    ELSE LET frames == CHOOSE f \in {arrays[i].shape[1] : i \in 1..Len(arrays)} :
                           \A i \in 1..Len(arrays) : f <= arrays[i].shape[1]
         IN  [raised |-> FALSE,
              value |-> [shape |-> << Len(arrays), frames >> \o Tail(arrays[1].shape),
                         data |-> [i \in 1..Len(arrays) |-> SubSeq(arrays[i].data, 1, frames)]]]

\* np.stack(arrays): a new leading axis; ValueError for an empty list and for
\* arrays whose shapes differ.
np_stack(arrays) ==
    IF Len(arrays) = 0
    THEN [raised |-> TRUE, value |-> NoArray]
    ELSE IF \E i \in 1..Len(arrays) : arrays[i].shape # arrays[1].shape
    THEN [raised |-> TRUE, value |-> NoArray]
    ELSE [raised |-> FALSE,
          value |-> [shape |-> << Len(arrays) >> \o arrays[1].shape,
                     data |-> [i \in 1..Len(arrays) |-> arrays[i].data]]]

\* ------------------------------------------------------------- state
VARIABLES
    scenario,          \* which part of the program the behaviour exercises
    tracker_name,      \* the tracker_name argument of every batch call
    videos,            \* the *.mp4 files of the folder, in glob order
    pc,                \* "idle", "called", "sequential" or "pool"
    cpu_count,         \* cpu_count() as the running call read it
    num_processes_arg, \* the num_processes argument of the running call
    num_processes,     \* the worker count of the running call
    dirs,              \* directories created so far
    tasks,             \* the task list: indices into videos
    next_task,         \* the next task to hand out
    task_state,        \* task -> where its process_single_video stands
    completion_order,  \* tasks in the order they finished
    array_list,        \* the list the sequential loop appends to
    trackers,          \* every tracker instance constructed by the call
    runs,              \* mode -> how the call in that mode ended
    rec,               \* the recorder used directly
    log,               \* what was recorded on rec since its construction or last clear
    last_op,           \* the last call on rec: "init", "record", "process", "clear" or "save"
    repeats,           \* process_tracked_objects calls since the last other call (2: two or more)
    last_returned,     \* what the last call returned, if it was process_tracked_objects
    dropped,           \* whether a clear has discarded observations and their array
    saved              \* the array the last call wrote to its file, if it was save

batch_vars == << tracker_name, videos, pc, cpu_count, num_processes_arg, num_processes,
                 dirs, tasks, next_task, task_state, completion_order, array_list,
                 trackers, runs >>

recorder_vars == << rec, log, last_op, repeats, last_returned, dropped, saved >>

VARIABLES
    observation,       \* the MediapipeObservation under test, once created
    trajectories,      \* what its all_holistic_trajectories gave, once read
    serialized         \* how its to_serializable_dict ended, once called

observation_vars == << observation, trajectories, serialized >>

VARIABLES
    charuco_config,       \* the CharucoDetectorConfig of the scenario
    charuco_detector,     \* the CharucoDetector, once created
    image,                \* the frame last handed to detect
    charuco_observation   \* the observation detect returned for it

charuco_vars == << charuco_config, charuco_detector, image, charuco_observation >>

VARIABLES
    json_files,           \* the result files of the directory, in the order glob lists them
    track_hands,          \* the recorder's track_hands flag
    track_faces,          \* the recorder's track_faces flag
    parsed                \* how parse_openpose_jsons ended, once called

ingest_vars == << json_files, track_hands, track_faces, parsed >>

VARIABLES
    tracker_class,          \* "BaseTracker" or "ColorTracker"
    original_image,         \* the frame of the last process_image call, as it was passed
    caller_image,           \* the caller's buffer of that frame after the call
    process_result,         \* what the call returned or left on the tracker
    processed,              \* the observations of all process_image calls, in call order
    recorder_observations,  \* BaseRecorder.observations
    last_call               \* "none", "process_image" or "add_observations"

tracker_vars == << tracker_class, original_image, caller_image, process_result,
                   processed, recorder_observations, last_call >>

unit_vars == << observation_vars, charuco_vars, ingest_vars, tracker_vars >>

vars == << scenario, batch_vars, recorder_vars, unit_vars >>

\* A task: pending, running (on the tracker instance numbered tracker, about
\* to read frame number frame), returned (value is the array) or raised.
Pending == [status |-> "pending", tracker |-> 0, frame |-> 0, value |-> NoArray]
Running(k) == [status |-> "running", tracker |-> k, frame |-> 1, value |-> NoArray]
Raised == [status |-> "raised", tracker |-> 0, frame |-> 0, value |-> NoArray]
Returned(array) == [status |-> "returned", tracker |-> 0, frame |-> 0, value |-> array]

Modes == {"sequential", "pool"}

\* How a call ended; reordered tells whether its tasks finished in another
\* order than they were submitted in.
NoRun == [status |-> "none", error |-> "none", returned |-> NoArray, persisted |-> NoArray,
          reordered |-> FALSE]

Mode(n) == IF n > 1 THEN "pool" ELSE "sequential"

\* How many tasks run at once: one in the calling context, one per worker of
\* Pool(processes=num_processes).
Capacity == IF pc = "pool" THEN num_processes ELSE 1

InFlight == {t \in 1..Len(task_state) : task_state[t].status = "running"}

\* ------------------------------------------------------------- batch
\* Mutant of DefaultNumProcesses: no core is left free.
DefaultNumProcesses_all_cores(cores, num_files) == Min(cores, num_files)

\* Lines 55-58: the worker count when num_processes is None.
DefaultNumProcesses(cores, num_files) == Min(cores - 1, num_files)

InitBatch ==
    /\ tracker_name \in BatchTrackerNames
    /\ \E n \in 0..MaxVideos :
          videos \in {vs \in [1..n -> UNION {VideoChoices(i) : i \in 1..n}] :
                         \A i \in 1..n : vs[i] \in VideoChoices(i)}
    /\ pc = "idle"
    /\ cpu_count = 1
    /\ num_processes_arg = None
    /\ num_processes = 0
    /\ dirs = {}
    /\ tasks = << >>
    /\ next_task = 1
    /\ task_state = << >>
    /\ completion_order = << >>
    /\ array_list = << >>
    /\ trackers = << >>
    /\ runs = [m \in Modes |-> NoRun]

\* The call is over: back to the caller, the call's locals dropped.
EndCall(mode, run) ==
    /\ runs' = [runs EXCEPT ![mode] =
                    [run EXCEPT !.reordered = (completion_order # SubSeq(tasks, 1, Len(completion_order)))]]
    /\ pc' = "idle"
    /\ cpu_count' = 1
    /\ num_processes_arg' = None
    /\ num_processes' = 0
    /\ tasks' = << >>
    /\ next_task' = 1
    /\ completion_order' = << >>
    /\ array_list' = << >>

\* process_folder_of_videos, lines 55-58: the worker count; argument is the
\* num_processes passed (None to derive it), cores what cpu_count() returns.
Call(argument, cores) ==
    LET n == IF argument = None
             THEN DefaultNumProcesses(cores, Len(videos))
             ELSE argument
    IN  /\ scenario = "batch"
        /\ pc = "idle"
        /\ runs[Mode(n)].status = "none"
        /\ pc' = "called"
        /\ cpu_count' = cores
        /\ num_processes_arg' = argument
        /\ num_processes' = n
        /\ trackers' = << >>
        /\ task_state' = << >>
        /\ UNCHANGED << scenario, tracker_name, videos, dirs, tasks, next_task,
                        completion_order, array_list, runs >>
        /\ UNCHANGED << recorder_vars, unit_vars >>

\* process_folder_of_videos, lines 60-79: the output file name, the two
\* directories, the task list and the choice of the path.
Setup ==
    LET file_name == FileNameLookup(tracker_name)
    IN  /\ scenario = "batch"
        /\ pc = "called"
        /\ IF file_name.raised
           THEN /\ EndCall(Mode(num_processes),
                           [NoRun EXCEPT !.status = "raised", !.error = file_name.value])
                /\ UNCHANGED << dirs, task_state >>
           ELSE /\ dirs' = dirs \cup {"output_data/raw_data", "annotated_videos"}
                /\ tasks' = [t \in 1..Len(videos) |-> t]
                /\ task_state' = [t \in 1..Len(videos) |-> Pending]
                /\ next_task' = 1
                /\ pc' = Mode(num_processes)
                /\ cpu_count' = 1
                /\ num_processes_arg' = None
                /\ UNCHANGED << num_processes, completion_order, array_list, runs >>
        /\ UNCHANGED << scenario, tracker_name, videos, trackers >>
        /\ UNCHANGED << recorder_vars, unit_vars >>

\* Mutant of TaskRaises: the failure is logged and the batch goes on without
\* the failed camera.
TaskRaises_and_is_skipped(task, next) ==
    /\ task_state' = [task_state EXCEPT ![task] = Raised]
    /\ completion_order' = Append(completion_order, task)
    /\ next_task' = next
    /\ UNCHANGED << pc, cpu_count, num_processes_arg, num_processes, tasks, array_list, runs >>

\* A task raised. In the calling context the exception leaves
\* process_folder_of_videos at once; in a pool worker it becomes the task's
\* result and the worker goes on (the next task to hand out is then next).
TaskRaises(task, next) ==
    /\ task_state' = [task_state EXCEPT ![task] = Raised]
    /\ IF pc = "sequential"
       THEN EndCall("sequential", [NoRun EXCEPT !.status = "raised", !.error = "TaskError"])
       ELSE /\ completion_order' = Append(completion_order, task)
            /\ next_task' = next
            /\ UNCHANGED << pc, cpu_count, num_processes_arg, num_processes, tasks,
                            array_list, runs >>

\* Mutant of Construct: one tracker instance is kept and handed out again.
Construct_shared(instances, tracker) ==
    IF instances = << >>
    THEN << [class |-> tracker.class, recorder |-> tracker.recorder,
             fed |-> << >>, returned |-> FALSE] >>
    ELSE instances

\* The tracker get_tracker constructed is a new object beside the existing
\* instances; fed lists the images its process_image has been given.
Construct(instances, tracker) ==
    Append(instances, [class |-> tracker.class, recorder |-> tracker.recorder,
                       fed |-> << >>, returned |-> FALSE])

\* process_single_video, lines 112-118: the next task starts, in the calling
\* context or on a free pool worker, with a tracker constructed for it.
StartTask ==
    /\ scenario = "batch"
    /\ pc \in Modes
    /\ Cardinality(InFlight) < Capacity
    /\ next_task <= Len(tasks)
    /\ LET tracker == get_tracker(tracker_name)
       IN  IF tracker.raised
           THEN /\ TaskRaises(tasks[next_task], next_task + 1)
                /\ UNCHANGED trackers
           ELSE /\ trackers' = Construct(trackers, tracker)
                /\ task_state' = [task_state EXCEPT ![tasks[next_task]] = Running(Len(trackers'))]
                /\ next_task' = next_task + 1
                /\ UNCHANGED << pc, cpu_count, num_processes_arg, num_processes, tasks,
                                completion_order, array_list, runs >>
    /\ UNCHANGED << scenario, tracker_name, videos, dirs >>
    /\ UNCHANGED << recorder_vars, unit_vars >>

\* tracker.process_video, one iteration of its frame loop: the frame is read,
\* the tracker's process_image detects on it, the recorder records the result.
\* A frame that cannot be read raises.
ProcessFrame(task) ==
    /\ scenario = "batch"
    /\ pc \in Modes
    /\ task \in InFlight
    /\ LET k == task_state[task].tracker
           j == task_state[task].frame
           video == videos[task]
       IN  /\ j <= Len(video.images)
           /\ IF j > video.readable
              THEN /\ TaskRaises(task, next_task)
                   /\ UNCHANGED trackers
              ELSE /\ trackers' = [trackers EXCEPT
                          ![k].recorder = record(@, BrightestPointDetect(video.images[j])),
                          ![k].fed = Append(@, video.images[j])]
                   /\ task_state' = [task_state EXCEPT ![task].frame = j + 1]
                   /\ UNCHANGED << pc, cpu_count, num_processes_arg, num_processes, tasks,
                                   next_task, completion_order, array_list, runs >>
    /\ UNCHANGED << scenario, tracker_name, videos, dirs >>
    /\ UNCHANGED << recorder_vars, unit_vars >>

\* The end of tracker.process_video (the recorder is compacted, the array is
\* the result) and process_single_video, lines 124-125: the recorder is
\* cleared and the array returned.
FinishedVideo(tracker) ==
    LET compacted == process_tracked_objects(tracker.recorder)
    IN  [output_array |-> compacted.returned,
         tracker |-> [tracker EXCEPT !.recorder = clear_recorded_objects(compacted.rec),
                                     !.returned = TRUE]]

FinishVideo(task) ==
    /\ scenario = "batch"
    /\ pc \in Modes
    /\ task \in InFlight
    /\ LET k == task_state[task].tracker
           done == FinishedVideo(trackers[k])
       IN  /\ task_state[task].frame > Len(videos[task].images)
           /\ trackers' = [trackers EXCEPT ![k] = done.tracker]
           /\ task_state' = [task_state EXCEPT ![task] = Returned(done.output_array)]
           /\ completion_order' = Append(completion_order, task)
           /\ array_list' = IF pc = "sequential"
                            THEN Append(array_list, done.output_array)
                            ELSE array_list
    /\ UNCHANGED << scenario, tracker_name, videos, pc, cpu_count, num_processes_arg,
                    num_processes, dirs, tasks, next_task, runs >>
    /\ UNCHANGED << recorder_vars, unit_vars >>

\* Lines 88-93: np.stack, np.save, return.
StackSaveReturn(mode, arrays) ==
    LET combined_array == np_stack(arrays)
    IN  IF combined_array.raised
        THEN EndCall(mode, [NoRun EXCEPT !.status = "raised", !.error = "StackError"])
        ELSE EndCall(mode, [NoRun EXCEPT !.status = "returned",
                                         !.returned = combined_array.value,
                                         !.persisted = combined_array.value])

\* Lines 84-93: the loop over the tasks is over.
SequentialStack ==
    /\ scenario = "batch"
    /\ pc = "sequential"
    /\ next_task > Len(tasks)
    /\ InFlight = {}
    /\ StackSaveReturn("sequential", array_list)
    /\ UNCHANGED << scenario, tracker_name, videos, dirs, task_state, trackers >>
    /\ UNCHANGED << recorder_vars, unit_vars >>

\* Mutant of starmap: the results in the order the tasks finished in
\* (imap_unordered).
starmap_unordered(task_results, finished) ==
    IF \E t \in 1..Len(task_results) : task_results[t].status = "raised"
    THEN [raised |-> TRUE, value |-> << >>]
    ELSE [raised |-> FALSE,
          value |-> [t \in 1..Len(task_results) |-> task_results[finished[t]].value]]

\* Mutant of starmap: the results of the tasks that raised are left out.
starmap_without_failures(task_results, finished) ==
    LET kept == SelectSeq(task_results, LAMBDA r : r.status = "returned")
    IN  [raised |-> FALSE, value |-> [t \in 1..Len(kept) |-> kept[t].value]]

\* pool.starmap(process_single_video, tasks) once every task has a result:
\* the results in task order, or the exception of a task that raised.
\* finished is the order in which the tasks completed.
starmap(task_results, finished) ==
    IF \E t \in 1..Len(task_results) : task_results[t].status = "raised"
    THEN [raised |-> TRUE, value |-> << >>]
    ELSE [raised |-> FALSE,
          value |-> [t \in 1..Len(task_results) |-> task_results[t].value]]

\* Lines 79-82 and 88-93: the pool's results are gathered and stacked.
PoolGatherStack ==
    /\ scenario = "batch"
    /\ pc = "pool"
    /\ \A t \in 1..Len(task_state) : task_state[t].status \in {"returned", "raised"}
    /\ LET gathered == starmap(task_state, completion_order)
       IN  IF gathered.raised
           THEN EndCall("pool", [NoRun EXCEPT !.status = "raised", !.error = "TaskError"])
           ELSE StackSaveReturn("pool", gathered.value)
    /\ UNCHANGED << scenario, tracker_name, videos, dirs, task_state, trackers >>
    /\ UNCHANGED << recorder_vars, unit_vars >>

NextBatch ==
    \/ \E argument \in {None} \cup 1..MaxProcesses, cores \in 1..MaxCores :
          Call(argument, cores)
    \/ Setup
    \/ StartTask
    \/ \E task \in 1..MaxVideos : ProcessFrame(task)
    \/ \E task \in 1..MaxVideos : FinishVideo(task)
    \/ SequentialStack
    \/ PoolGatherStack

\* ------------------------------------------------------------- recorder use
RecorderClasses == {"BrightestPointRecorder", "MediapipeHolisticRecorder"}

\* What the brightest-point tracker hands to its recorder for a frame: a point
\* at a pixel, with or without a depth, or no point found.
BrightestPointTrackedObjects ==
    {[brightest_point |-> [pixel_x |-> 1, pixel_y |-> 2, depth_z |-> None]],
     [brightest_point |-> [pixel_x |-> 3, pixel_y |-> 1, depth_z |-> 0]],
     [brightest_point |-> [pixel_x |-> None, pixel_y |-> None, depth_z |-> None]]}

\* A holistic detection result on a 4 x 3 image, the regions named in body
\* being present: each present region has its full landmark list.
HolisticDetection(body, right_hand, left_hand, face) ==
    [pose_landmarks |-> IF body THEN Landmarks(num_body_points, << 1, 1, 0 >>) ELSE NoLandmarks,
     right_hand_landmarks |->
         IF right_hand THEN Landmarks(num_single_hand_points, << 1, 0, 1 >>) ELSE NoLandmarks,
     left_hand_landmarks |->
         IF left_hand THEN Landmarks(num_single_hand_points, << 0, 1, 1 >>) ELSE NoLandmarks,
     face_landmarks |-> IF face THEN Landmarks(num_face_points, << 1, 1, 1 >>) ELSE NoLandmarks,
     image_size |-> << 4, 3 >>]

HolisticTrackedObjects ==
    {HolisticDetection(TRUE, TRUE, TRUE, TRUE),
     HolisticDetection(TRUE, FALSE, TRUE, FALSE),
     HolisticDetection(FALSE, FALSE, FALSE, FALSE)}

TrackedObjectsFor(class) ==
    IF class = "BrightestPointRecorder"
    THEN BrightestPointTrackedObjects
    ELSE HolisticTrackedObjects

IdleBatch ==
    /\ tracker_name = "BrightestPointTracker"
    /\ videos = << >>
    /\ pc = "idle"
    /\ cpu_count = 1
    /\ num_processes_arg = None
    /\ num_processes = 0
    /\ dirs = {}
    /\ tasks = << >>
    /\ next_task = 1
    /\ task_state = << >>
    /\ completion_order = << >>
    /\ array_list = << >>
    /\ trackers = << >>
    /\ runs = [m \in Modes |-> NoRun]

\* A recorder right after its construction.
FreshRecorder(class) ==
    /\ rec = BaseRecorderInit(class)
    /\ log = << >>
    /\ last_op = "init"
    /\ repeats = 0
    /\ last_returned = NoArray
    /\ dropped = FALSE
    /\ saved = NoArray

\* rec.record(tracked_objects)
Record(tracked_objects) ==
    /\ scenario = "recorder"
    /\ Len(rec.recorded_objects) < MaxRecords
    /\ tracked_objects \in TrackedObjectsFor(rec.class)
    /\ rec' = record(rec, tracked_objects)
    /\ log' = Append(log, tracked_objects)
    /\ last_op' = "record"
    /\ repeats' = 0
    /\ last_returned' = NoArray
    /\ saved' = NoArray
    /\ UNCHANGED << scenario, batch_vars, unit_vars, dropped >>

\* rec.process_tracked_objects()
ProcessTrackedObjects ==
    /\ scenario = "recorder"
    /\ LET call == process_tracked_objects(rec)
       IN  /\ rec' = call.rec
           /\ last_returned' = call.returned
    /\ last_op' = "process"
    /\ repeats' = Min(repeats + 1, 2)
    /\ saved' = NoArray
    /\ UNCHANGED << scenario, batch_vars, unit_vars, log, dropped >>

\* rec.clear_recorded_objects()
ClearRecordedObjects ==
    /\ scenario = "recorder"
    /\ rec' = clear_recorded_objects(rec)
    /\ log' = << >>
    /\ last_op' = "clear"
    /\ repeats' = 0
    /\ last_returned' = NoArray
    /\ dropped' = (dropped \/ (Len(rec.recorded_objects) >= 1
                                /\ rec.recorded_objects_array # NoArray))
    /\ saved' = NoArray
    /\ UNCHANGED << scenario, batch_vars, unit_vars >>

\* rec.save(file_path)
Save ==
    /\ scenario = "recorder"
    /\ LET call == save(rec)
       IN  /\ rec' = call.rec
           /\ saved' = call.written
    /\ last_op' = "save"
    /\ repeats' = 0
    /\ last_returned' = NoArray
    /\ UNCHANGED << scenario, batch_vars, unit_vars, log, dropped >>

NextRecorder ==
    \/ \E tracked_objects \in BrightestPointTrackedObjects \cup HolisticTrackedObjects :
          Record(tracked_objects)
    \/ ProcessTrackedObjects
    \/ ClearRecordedObjects
    \/ Save

\* ------------------------------------------------------------- observation use
NoObservation == [none |-> TRUE]
NoCall == [none |-> TRUE]

\* The image_size arguments an observation is created with.
ImageSizes == {<< 4, 3 >>, << 3, 4 >>}

IdleObservation ==
    /\ observation = NoObservation
    /\ trajectories = NoArray
    /\ serialized = NoCall

\* observation = MediapipeObservation.from_detection_results(results, image_size),
\* over every combination of detected regions.
FromDetectionResults(body, right_hand, left_hand, face, image_size) ==
    /\ scenario = "observation"
    /\ observation = NoObservation
    /\ observation' = from_detection_results(
                          HolisticDetection(body, right_hand, left_hand, face), image_size)
    /\ UNCHANGED << scenario, batch_vars, recorder_vars, charuco_vars, ingest_vars, tracker_vars, trajectories, serialized >>

\* observation.all_holistic_trajectories
AllHolisticTrajectories ==
    /\ scenario = "observation"
    /\ observation # NoObservation
    /\ trajectories = NoArray
    /\ LET rows == all_holistic_trajectories(observation)
       IN  trajectories' = [shape |-> << Len(rows), 3 >>, data |-> rows]
    /\ UNCHANGED << scenario, batch_vars, recorder_vars, charuco_vars, ingest_vars, tracker_vars, observation, serialized >>

\* observation.to_serializable_dict()
ToSerializableDict ==
    /\ scenario = "observation"
    /\ observation # NoObservation
    /\ serialized = NoCall
    /\ serialized' = to_serializable_dict(observation)
    /\ UNCHANGED << scenario, batch_vars, recorder_vars, charuco_vars, ingest_vars, tracker_vars, observation, trajectories >>

NextObservation ==
    \/ \E body, right_hand, left_hand, face \in BOOLEAN : \E image_size \in ImageSizes :
          FromDetectionResults(body, right_hand, left_hand, face, image_size)
    \/ AllHolisticTrajectories
    \/ ToSerializableDict

\* ------------------------------------------------------------- calibration board use
NoDetector == [none |-> TRUE]
NoFrame == [none |-> TRUE]

CharucoConfigs ==
    {[squares_x |-> x, squares_y |-> y] : x \in 1..MaxSquares, y \in 1..MaxSquares}

Frames ==
    {Frame(height, width, colour) :
        height \in 1..MaxSide, width \in 1..MaxSide, colour \in BOOLEAN}

IdleCharuco ==
    /\ charuco_config = [squares_x |-> 5, squares_y |-> 3]
    /\ charuco_detector = NoDetector
    /\ image = NoFrame
    /\ charuco_observation = NoObservation

InitCharuco ==
    /\ charuco_config \in CharucoConfigs
    /\ charuco_detector = NoDetector
    /\ image = NoFrame
    /\ charuco_observation = NoObservation

\* charuco_detector = CharucoDetector.create(charuco_config)
CharucoCreate ==
    /\ scenario = "charuco"
    /\ charuco_detector = NoDetector
    /\ charuco_detector' = CharucoDetectorCreate(charuco_config)
    /\ UNCHANGED << scenario, batch_vars, recorder_vars, observation_vars, ingest_vars, tracker_vars,
                    charuco_config, image, charuco_observation >>

\* charuco_observation = charuco_detector.detect(frame)
CharucoDetectFrame(frame, detected) ==
    /\ scenario = "charuco"
    /\ charuco_detector # NoDetector
    /\ detected \in DetectBoardResults(charuco_config)
    /\ image' = frame
    /\ charuco_observation' = CharucoDetect(charuco_detector, frame, detected)
    /\ UNCHANGED << scenario, batch_vars, recorder_vars, observation_vars, ingest_vars, tracker_vars,
                    charuco_config, charuco_detector >>

NextCharuco ==
    \/ CharucoCreate
    \/ \E frame \in Frames :
          \E detected \in DetectBoardResults(charuco_config) :
              CharucoDetectFrame(frame, detected)

\* ------------------------------------------------------------- result file use
\* A person of a result file, with some of the keys.
Person(id, keys) == [id |-> id, keys |-> keys]

\* The keys the persons of a directory have: all, or without some regions.
KeyChoices ==
    {PersonKeys,
     {"pose_keypoints_2d"},
     {"pose_keypoints_2d", "hand_left_keypoints_2d", "hand_right_keypoints_2d"},
     {"pose_keypoints_2d", "face_keypoints_2d"},
     {"pose_keypoints_2d", "hand_left_keypoints_2d", "face_keypoints_2d"}}

\* The "people" lists of the file of a frame index: nobody, one person, or
\* two; a person's id tells the file and the person.
PeopleChoices(frame_index, keys) ==
    {<< >>,
     << Person(10 * frame_index + 1, keys) >>,
     << Person(10 * frame_index + 2, keys), Person(10 * frame_index + 1, keys) >>}

\* Directories of up to MaxFiles files with distinct frame indices, listed
\* in any order.
Listings ==
    UNION {{files \in [1..n -> UNION {{JsonFile(index, people) :
                                           people \in PeopleChoices(index, keys)} :
                                       index \in 0..MaxFiles}] :
                \A a, b \in 1..n : a # b => files[a].frame_index # files[b].frame_index} :
           n \in 0..MaxFiles, keys \in KeyChoices}

\* The directory of ten files with the frame indices 0 to 9, the file of
\* index 4 reporting nobody, listed in increasing or in decreasing order.
ScenarioDFiles == 10
ScenarioDEmptyIndex == 4

ScenarioDListings ==
    LET file(index) ==
            JsonFile(index, IF index = ScenarioDEmptyIndex
                            THEN << >> ELSE << Person(10 * index + 1, PersonKeys) >>)
    IN  {[k \in 1..ScenarioDFiles |-> file(k - 1)],
         [k \in 1..ScenarioDFiles |-> file(ScenarioDFiles - k)]}

IdleIngest ==
    /\ json_files = << >>
    /\ track_hands = FALSE
    /\ track_faces = FALSE
    /\ parsed = NoCall

\* OpenPoseRecorder(json_directory_path, track_hands, track_faces)
InitIngest ==
    /\ json_files \in Listings \cup ScenarioDListings
    /\ track_hands \in BOOLEAN
    /\ track_faces \in BOOLEAN
    /\ parsed = NoCall

\* recorder.process_tracked_objects(json_directory): parse_openpose_jsons
ParseOpenposeJsons ==
    /\ scenario = "ingest"
    /\ parsed = NoCall
    /\ parsed' = parse_openpose_jsons(json_files, track_hands, track_faces)
    /\ UNCHANGED << scenario, batch_vars, recorder_vars, observation_vars, charuco_vars,
                    tracker_vars, json_files, track_hands, track_faces >>

NextIngest == ParseOpenposeJsons

\* ------------------------------------------------------------- tracker use
TrackerClasses == {"BaseTracker", "ColorTracker"}

Pictures == {Picture(contours) : contours \in SUBSET Contours}

IdleTracker ==
    /\ tracker_class = "BaseTracker"
    /\ original_image = NoFrame
    /\ caller_image = NoFrame
    /\ process_result = NoCall
    /\ processed = << >>
    /\ recorder_observations = << >>
    /\ last_call = "none"

InitTracker ==
    /\ tracker_class \in TrackerClasses
    /\ original_image = NoFrame
    /\ caller_image = NoFrame
    /\ process_result = NoCall
    /\ processed = << >>
    /\ recorder_observations = << >>
    /\ last_call = "none"

\* tracker.process_image(frame, annotate_image=annotate)
ProcessImage(frame, annotate) ==
    /\ scenario = "tracker"
    /\ Len(processed) < MaxCalls
    /\ LET call == IF tracker_class = "ColorTracker"
                   THEN ColorTrackerProcessImage(frame)
                   ELSE process_image(frame, annotate)
       IN  /\ original_image' = frame
           /\ caller_image' = call.input
           /\ process_result' = [observation |-> call.observation,
                                 annotated_image |-> call.annotated_image,
                                 annotated_is_input |-> call.annotated_is_input,
                                 annotate |-> (annotate \/ tracker_class = "ColorTracker")]
           /\ processed' = Append(processed, call.observation)
    /\ last_call' = "process_image"
    /\ UNCHANGED << scenario, batch_vars, recorder_vars, observation_vars, charuco_vars,
                    ingest_vars, tracker_class, recorder_observations >>

\* recorder.add_observations(observation), called with the observation the
\* last process_image returned.
AddObservations ==
    /\ scenario = "tracker"
    /\ tracker_class = "BaseTracker"
    /\ last_call = "process_image"
    /\ recorder_observations' =
          add_observations(recorder_observations, process_result.observation)
    /\ last_call' = "add_observations"
    /\ UNCHANGED << scenario, batch_vars, recorder_vars, observation_vars, charuco_vars,
                    ingest_vars, tracker_class, original_image, caller_image,
                    process_result, processed >>

NextTracker ==
    \/ \E frame \in Pictures : \E annotate \in BOOLEAN : ProcessImage(frame, annotate)
    \/ AddObservations

Init ==
    \/ /\ scenario = "batch"
       /\ InitBatch
       /\ FreshRecorder("BrightestPointRecorder")
       /\ IdleObservation /\ IdleCharuco /\ IdleIngest /\ IdleTracker
    \/ /\ scenario = "recorder"
       /\ IdleBatch
       /\ \E class \in RecorderClasses : FreshRecorder(class)
       /\ IdleObservation /\ IdleCharuco /\ IdleIngest /\ IdleTracker
    \/ /\ scenario = "observation"
       /\ IdleBatch
       /\ FreshRecorder("MediapipeHolisticRecorder")
       /\ IdleObservation /\ IdleCharuco /\ IdleIngest /\ IdleTracker
    \/ /\ scenario = "charuco"
       /\ IdleBatch
       /\ FreshRecorder("BrightestPointRecorder")
       /\ IdleObservation /\ InitCharuco /\ IdleIngest /\ IdleTracker
    \/ /\ scenario = "ingest"
       /\ IdleBatch
       /\ FreshRecorder("BrightestPointRecorder")
       /\ IdleObservation /\ IdleCharuco /\ InitIngest /\ IdleTracker
    \/ /\ scenario = "tracker"
       /\ IdleBatch
       /\ FreshRecorder("BrightestPointRecorder")
       /\ IdleObservation /\ IdleCharuco /\ IdleIngest /\ InitTracker

Next ==
    \/ NextBatch
    \/ NextRecorder
    \/ NextObservation
    \/ NextCharuco
    \/ NextIngest
    \/ NextTracker

Spec == Init /\ [][Next]_vars

\* ------------------------------------------------------------- claims
\* The per-video array of the i-th discovered file: one row per frame, in frame
\* order, holding the one point the detector reports for that frame.
OwnArray(i) ==
    [shape |-> << Len(videos[i].images), 1, 3 >>,
     data |-> [j \in 1..Len(videos[i].images) |->
                  << << videos[i].images[j].video, videos[i].images[j].index, NaN >> >>]]

Readable(i) == videos[i].readable >= Len(videos[i].images)

\* C1: a call across the worker pool that returns, returns an array with one
\* camera slot per discovered video file, slot i holding the per-video array
\* of the i-th file in discovery order, whatever order the workers finished
\* in; n files of f frames give the shape (n, f, N, 3), N = 1 here.
C1_PoolKeepsSubmissionOrder ==
    runs["pool"].status = "returned" =>
        LET combined == runs["pool"].returned
        IN  /\ Len(combined.data) = Len(videos)
            /\ \A i \in 1..Len(videos) : combined.data[i] = OwnArray(i).data
            /\ combined.shape = << Len(videos), Len(videos[1].images), 1, 3 >>

C1_Witness ==
    /\ runs["pool"].status = "returned"
    /\ runs["pool"].reordered
    /\ Len(videos) >= 2
    /\ Len(videos[1].images) >= 1

\* C2: over the same folder, tracker name and parameters, the call in the
\* calling context and the call across the pool end the same way, and return
\* and persist the same combined array.
C2_SequentialEqualsPool ==
    (runs["sequential"].status # "none" /\ runs["pool"].status # "none") =>
        /\ runs["sequential"].status = runs["pool"].status
        /\ runs["sequential"].returned = runs["pool"].returned
        /\ runs["sequential"].persisted = runs["pool"].persisted

C2_Witness ==
    /\ runs["sequential"].status = "returned"
    /\ runs["pool"].status = "returned"
    /\ runs["pool"].reordered
    /\ Len(videos) >= 2
    /\ Len(videos[1].images) >= 2

\* C3: when the per-video arrays collected differ in shape (the tracker is a
\* known one, every file was processed, two files have different frame counts), the call fails at the
\* stacking step, returns and persists nothing, and every per-video array
\* collected has the frame count of its own video (none padded or truncated).
C3_ShapeMismatchFails ==
    (tracker_name \in KnownTrackerNames
        /\ (\A i \in 1..Len(videos) : Readable(i))
        /\ (\E i, k \in 1..Len(videos) : Len(videos[i].images) # Len(videos[k].images))) =>
        /\ \A m \in Modes : runs[m].status # "none" =>
              /\ runs[m].status = "raised"
              /\ runs[m].error = "StackError"
              /\ runs[m].returned = NoArray
              /\ runs[m].persisted = NoArray
        /\ \A t \in 1..Len(task_state) : task_state[t].status = "returned" =>
              task_state[t].value.shape = << Len(videos[t].images), 1, 3 >>

C3_Witness ==
    /\ runs["pool"].status = "raised"
    /\ runs["pool"].error = "StackError"
    /\ runs["sequential"].status = "raised"
    /\ runs["sequential"].error = "StackError"
    /\ Len(videos) >= 2
    /\ \E i, k \in 1..Len(videos) : Len(videos[i].images) # Len(videos[k].images)

\* C4: a call that returns (or persists) a combined array had no failed task:
\* every video file was readable to its end and has its slot in the array.
C4_FailedTaskFailsBatch ==
    \A m \in Modes :
        (runs[m].status = "returned" \/ runs[m].persisted # NoArray) =>
            /\ \A i \in 1..Len(videos) : Readable(i)
            /\ Len(runs[m].returned.data) = Len(videos)
            /\ Len(runs[m].persisted.data) = Len(videos)

C4_Witness ==
    /\ runs["pool"].status = "raised"
    /\ runs["pool"].error = "TaskError"
    /\ runs["pool"].reordered
    /\ runs["sequential"].status = "raised"
    /\ \E t \in 1..Len(task_state) : task_state[t].status = "returned"
    /\ \E t \in 1..Len(task_state) : task_state[t].status = "raised"

\* C5: every tracker instance is given images of one video file only, in frame
\* order from its first frame, and the array a task returns holds exactly the
\* frames of its own video, in frame order.
C5_OneTrackerPerVideo ==
    /\ \A k \in 1..Len(trackers) :
          \E i \in 1..Len(videos) :
              /\ Len(trackers[k].fed) <= Len(videos[i].images)
              /\ trackers[k].fed = SubSeq(videos[i].images, 1, Len(trackers[k].fed))
    /\ \A t \in 1..Len(task_state) :
          task_state[t].status = "returned" => task_state[t].value = OwnArray(t)

C5_Witness ==
    /\ pc = "pool"
    /\ \E t, u \in InFlight :
          /\ t # u
          /\ Len(trackers[task_state[t].tracker].fed) >= 1
          /\ Len(trackers[task_state[u].tracker].fed) >= 1

\* C6 as stated: the default worker count is at most cores - 1, at most the
\* number of files and never less than 1.
C6_DefaultAtLeastOne ==
    (pc = "called" /\ num_processes_arg = None) =>
        /\ num_processes <= cpu_count - 1
        /\ num_processes <= Len(videos)
        /\ num_processes >= 1

\* C6, amended: the default worker count is at most cores - 1 and at most the
\* number of files; it is at least 1 when there are two cores or more and at
\* least one file, and 0 otherwise.
C6_DefaultBounded ==
    (pc = "called" /\ num_processes_arg = None) =>
        /\ num_processes <= cpu_count - 1
        /\ num_processes <= Len(videos)
        /\ (cpu_count >= 2 /\ Len(videos) >= 1) => num_processes >= 1
        /\ (cpu_count = 1 \/ Len(videos) = 0) => num_processes = 0

C6_Witness ==
    /\ pc = "called"
    /\ num_processes_arg = None
    /\ num_processes = 2
    /\ cpu_count = 3
    /\ Len(videos) = 2

\* C7: a tracker name that is not a known variant makes get_tracker raise, and
\* every call with it fails before any directory is created, before any
\* tracker is constructed or frame processed, and with nothing persisted.
C7_UnknownTrackerFailsFirst ==
    /\ \A name \in TrackerNames \ KnownTrackerNames : get_tracker(name).raised
    /\ tracker_name \notin KnownTrackerNames =>
          /\ get_tracker(tracker_name).raised
          /\ pc \in {"idle", "called"}
          /\ dirs = {}
          /\ trackers = << >>
          /\ \A m \in Modes : /\ runs[m].status \in {"none", "raised"}
                              /\ runs[m].returned = NoArray
                              /\ runs[m].persisted = NoArray

C7_Witness ==
    /\ tracker_name = "ColorTracker"
    /\ runs["pool"].status = "raised"
    /\ runs["sequential"].status = "raised"
    /\ Len(videos) >= 1
    /\ videos[1].readable >= 1

\* The array a recorder of the class should give for the observations: one
\* row per observation, in order, of the class's number of tracked points.
PointsOf(class) ==
    IF class = "BrightestPointRecorder"
    THEN 1
    ELSE num_body_points + 2 * num_single_hand_points + num_face_points

RowOf(class, tracked_objects) ==
    IF class = "BrightestPointRecorder"
    THEN << << ToFloat(tracked_objects["brightest_point"].pixel_x),
               ToFloat(tracked_objects["brightest_point"].pixel_y),
               ToFloat(tracked_objects["brightest_point"].depth_z) >> >>
    ELSE all_holistic_trajectories(tracked_objects)

IsArrayOf(array, class, observations) ==
    /\ array # NoArray
    /\ array.shape = << Len(observations), PointsOf(class), 3 >>
    /\ Len(array.data) = Len(observations)
    /\ \A i \in 1..Len(observations) :
          /\ Len(array.data[i]) = PointsOf(class)
          /\ array.data[i] = RowOf(class, observations[i])

C9_ArrayOfRecorded ==
    last_op = "process" => IsArrayOf(last_returned, rec.class, log)

C9_Witness ==
    /\ scenario = "recorder"
    /\ last_op = "process"
    /\ dropped
    /\ Len(log) >= 2
    /\ log[1] # log[2]

\* C10: after clear_recorded_objects the recorder holds no observation and no
\* cached array; a tracker whose process_single_video has returned holds
\* neither; and the observations held, and any array cached, are those
\* recorded since the last clear only.
C10_ClearResets ==
    /\ last_op = "clear" =>
          /\ rec.recorded_objects = << >>
          /\ rec.recorded_objects_array = NoArray
    /\ \A k \in 1..Len(trackers) : trackers[k].returned =>
          /\ trackers[k].recorder.recorded_objects = << >>
          /\ trackers[k].recorder.recorded_objects_array = NoArray
    /\ Len(rec.recorded_objects) = Len(log)
    /\ rec.recorded_objects_array # NoArray =>
          \E n \in 0..Len(log) :
              IsArrayOf(rec.recorded_objects_array, rec.class, SubSeq(log, 1, n))

C10_Witness ==
    /\ scenario = "recorder"
    /\ dropped
    /\ last_op = "process"
    /\ Len(log) = 1
    /\ rec.recorded_objects_array.shape[1] = 1

\* The regions of a holistic observation, in the order of the schema, with
\* the landmark list, the point count and the first row's offset of each.
Regions == {"pose", "right_hand", "left_hand", "face"}

LandmarksOf(obs, region) ==
    CASE region = "pose" -> obs.pose_landmarks
      [] region = "right_hand" -> obs.right_hand_landmarks
      [] region = "left_hand" -> obs.left_hand_landmarks
      [] region = "face" -> obs.face_landmarks

CountOf(region) ==
    CASE region = "pose" -> num_body_points
      [] region = "right_hand" -> num_single_hand_points
      [] region = "left_hand" -> num_single_hand_points
      [] region = "face" -> num_face_points

OffsetOf(region) ==
    CASE region = "pose" -> 0
      [] region = "right_hand" -> num_body_points
      [] region = "left_hand" -> num_body_points + num_single_hand_points
      [] region = "face" -> num_body_points + 2 * num_single_hand_points

BlockOf(rows, region) ==
    SubSeq(rows, OffsetOf(region) + 1, OffsetOf(region) + CountOf(region))

\* The observation as it would be with the region detected.
WithDetected(obs, region) ==
    LET full == HolisticDetection(TRUE, TRUE, TRUE, TRUE)
    IN  CASE region = "pose" -> [obs EXCEPT !.pose_landmarks = full.pose_landmarks]
          [] region = "right_hand" ->
                [obs EXCEPT !.right_hand_landmarks = full.right_hand_landmarks]
          [] region = "left_hand" ->
                [obs EXCEPT !.left_hand_landmarks = full.left_hand_landmarks]
          [] region = "face" -> [obs EXCEPT !.face_landmarks = full.face_landmarks]

C12_AbsentRegionIsNaN ==
    trajectories # NoArray =>
        \A region \in Regions :
            ~LandmarksOf(observation, region).present =>
                /\ \A j \in 1..CountOf(region) : \A c \in 1..3 :
                      /\ BlockOf(trajectories.data, region)[j][c] = NaN
                      /\ BlockOf(trajectories.data, region)[j][c] # 0
                /\ \A other \in Regions \ {region} :
                      BlockOf(trajectories.data, other) =
                          BlockOf(all_holistic_trajectories(WithDetected(observation, region)),
                                  other)

C12_Witness ==
    /\ trajectories # NoArray
    /\ ~observation.right_hand_landmarks.present
    /\ observation.left_hand_landmarks.present
    /\ observation.face_landmarks.present
    /\ BlockOf(trajectories.data, "right_hand")[1] = << NaN, NaN, NaN >>
    /\ BlockOf(trajectories.data, "left_hand")[1] # << NaN, NaN, NaN >>

\* C13: to_serializable_dict of an observation whose data holds a value that
\* is not finite (the block of a region that was not detected) raises, and
\* returns no dictionary.
C13_NonFiniteFailsSerialization ==
    (/\ serialized # NoCall
     /\ \E region \in Regions : ~LandmarksOf(observation, region).present)
        => /\ serialized.raised
           /\ serialized.value = [none |-> TRUE]

\* The call returned a dictionary that holds not-a-number values.
C13_Witness ==
    /\ serialized # NoCall
    /\ ~observation.right_hand_landmarks.present
    /\ ~serialized.raised
    /\ HasNonFinite(serialized.value.right_hand_trajectories)

\* C14: the image_size of the observation a detector creates for a frame is
\* (width, height) of the frame.
C14_ImageSizeIsWidthHeight ==
    charuco_observation # NoObservation =>
        charuco_observation.image_size = << WidthOf(image), HeightOf(image) >>

\* A frame that is wider than high got an observation whose image_size[0]
\* is the frame's height.
C14_Witness ==
    /\ charuco_observation # NoObservation
    /\ WidthOf(image) = 3
    /\ HeightOf(image) = 2
    /\ charuco_observation.image_size = << 2, 3 >>

FileOfRank(k) ==
    LET sorted == SortedIndices({json_files[i].frame_index : i \in 1..Len(json_files)})
    IN  json_files[CHOOSE i \in 1..Len(json_files) : json_files[i].frame_index = sorted[k]]

AllNaN(rows) ==
    \A j \in 1..Len(rows) : rows[j] = << NaN, NaN, NaN >>

Populated(rows, first, last) ==
    \E j \in first..last : j <= Len(rows) /\ rows[j] # << NaN, NaN, NaN >>

\* C15: whatever the order of the listing, parse_openpose_jsons builds an
\* array with one frame per file, and the frame at position k holds the data
\* of the file with the k-th smallest frame index: not-a-number if the file
\* reports nobody, else the body points of the file's first person.
C15_FilesPlacedBySortOrder ==
    parsed # NoCall =>
        /\ ~parsed.raised
        /\ parsed.value.shape[1] = Len(json_files)
        /\ Len(parsed.value.data) = Len(json_files)
        /\ \A k \in 1..Len(json_files) :
              IF FileOfRank(k).people = << >>
              THEN AllNaN(parsed.value.data[k])
              ELSE \A j \in 1..body_markers :
                      parsed.value.data[k][j] =
                          KeyRow(FileOfRank(k).people[1], "pose_keypoints_2d", j)

\* Two files listed with the larger frame index first, both regions tracked:
\* the array is built, and its first frame holds the second file's person.
C15_Witness ==
    /\ parsed # NoCall
    /\ track_hands /\ track_faces
    /\ Len(json_files) = 2
    /\ json_files[1].frame_index = 1
    /\ json_files[2].frame_index = 0
    /\ json_files[1].people # << >>
    /\ json_files[2].people = << >>
    /\ ~parsed.raised
    /\ AllNaN(parsed.value.data[2])
    /\ parsed.value.data[1][1] = KeyRow(json_files[1].people[1], "pose_keypoints_2d", 1)

\* C16: the frame of a file that reports nobody is not-a-number throughout,
\* and the frame of a file that reports people is populated, with values of
\* the first person only; over the ten files of indices 0 to 9 of which only
\* the file of index 4 reports nobody, the array has ten frames, frame 4 is
\* not-a-number throughout and the other nine are populated.
C16_NobodyIsNaNFirstPersonUsed ==
    parsed # NoCall =>
        /\ ~parsed.raised
        /\ \A k \in 1..Len(json_files) :
              LET frame == parsed.value.data[k]
                  people == FileOfRank(k).people
              IN  IF people = << >>
                  THEN AllNaN(frame)
                  ELSE /\ Populated(frame, 1, Len(frame))
                       /\ \A j \in 1..Len(frame) :
                             frame[j] # << NaN, NaN, NaN >> => frame[j][1] = people[1].id
        /\ json_files \in ScenarioDListings =>
              /\ parsed.value.shape[1] = ScenarioDFiles
              /\ \A k \in 1..ScenarioDFiles :
                    AllNaN(parsed.value.data[k]) <=> (k = ScenarioDEmptyIndex + 1)

\* The ten files listed in increasing order, read by a recorder with the
\* default flags: the call raised.
C16_Witness ==
    /\ parsed # NoCall
    /\ json_files \in ScenarioDListings
    /\ json_files[1].frame_index = 0
    /\ ~track_hands /\ ~track_faces
    /\ parsed.raised
    /\ parsed.error = "ValueError"

\* C17: whatever the flags and the keys of the persons, no region that is
\* disabled or has no key makes parse_openpose_jsons fail; every frame written
\* has the num_markers rows the flags imply; and the hands' or the face's
\* sub-block is populated only if its flag is enabled and the persons have
\* its key.
C17_OptionalRegionsNeverFail ==
    parsed # NoCall =>
        /\ parsed.error # "ValueError"
        /\ ~parsed.raised =>
              \A k \in 1..Len(json_files) :
                  LET frame == parsed.value.data[k]
                      keys == UNION {json_files[i].people[1].keys :
                                        i \in {f \in 1..Len(json_files) :
                                                  json_files[f].people # << >>}}
                      face_first == body_markers + 1
                                       + (IF track_hands THEN 2 * hand_markers ELSE 0)
                  IN  /\ Len(frame) = NumMarkers(track_hands, track_faces)
                      /\ parsed.value.shape[2] = NumMarkers(track_hands, track_faces)
                      /\ Populated(frame, 1, body_markers) => "pose_keypoints_2d" \in keys
                      /\ (track_hands /\ Populated(frame, body_markers + 1,
                                                   body_markers + 2 * hand_markers))
                            => {"hand_left_keypoints_2d", "hand_right_keypoints_2d"}
                                   \subseteq keys
                      /\ (track_faces /\ Populated(frame, face_first, Len(frame)))
                            => "face_keypoints_2d" \in keys

\* One file of one person with the body's key only, read with the hands
\* disabled and the face enabled: the call raised.
C17_Witness ==
    /\ parsed # NoCall
    /\ Len(json_files) = 1
    /\ json_files[1].frame_index = 0
    /\ Len(json_files[1].people) = 1
    /\ json_files[1].people[1].keys = {"pose_keypoints_2d"}
    /\ ~track_hands /\ track_faces
    /\ parsed.raised
    /\ parsed.error = "ValueError"

\* C19: right after a process_image call of a BaseTracker, the recorder holds
\* the observations of all the frames processed so far, in frame order.
C19_ProcessImageRecords ==
    (tracker_class = "BaseTracker" /\ last_call = "process_image")
        => recorder_observations = processed

\* Two frames were processed and the recorder holds nothing.
C19_Witness ==
    /\ tracker_class = "BaseTracker"
    /\ last_call = "process_image"
    /\ Len(processed) = 2
    /\ recorder_observations = << >>

\* C20: a process_image call that annotates leaves the frame the caller
\* passed as it was, gives an annotated image that is another buffer than
\* the caller's, and yields the observation of a call on the same frame
\* without annotation.
C20_AnnotationIsSideOutput ==
    (process_result # NoCall /\ process_result.annotate)
        => /\ caller_image = original_image
           /\ ~process_result.annotated_is_input
           /\ tracker_class = "BaseTracker" =>
                 process_result.observation = process_image(original_image, FALSE).observation

\* A ColorTracker drew a circle into the frame the caller passed.
C20_Witness ==
    /\ tracker_class = "ColorTracker"
    /\ process_result # NoCall
    /\ original_image.drawn = {}
    /\ caller_image.drawn # {}
    /\ process_result.annotated_is_input

\* C21: the array save writes has one frame per observation recorded since
\* the recorder's construction or last clear, those recorded after the last
\* process_tracked_objects call included.
C21_SaveWritesAllRecorded ==
    last_op = "save" =>
        /\ saved # NoArray
        /\ saved.shape[1] = Len(log)
        /\ Len(saved.data) = Len(log)

\* Two observations were recorded, with a process_tracked_objects call
\* between them, and save wrote an array of one frame.
C21_Witness ==
    /\ scenario = "recorder"
    /\ rec.class = "BrightestPointRecorder"
    /\ last_op = "save"
    /\ Len(log) = 2
    /\ Len(rec.recorded_objects) = 2
    /\ saved.shape[1] = 1

====
